---- MODULE Spec2Model ----
(***************************************************************************)
(* A model of the chess engine of src/chess.py: the board and the Piece    *)
(* objects (a heap of pieces addressed by identity), the raw attack        *)
(* generator, the legal-move generator with its simulate-and-restore       *)
(* filter, the move executor (move_piece), the remote move applier         *)
(* (apply_remote_move) and the part of the main loop and of the receiver   *)
(* that calls them.                                                        *)
(***************************************************************************)
EXTENDS Integers, Sequences, FiniteSets, TLC

\* ------------------------------------------------------------------------
\* Bounds of the exploration
\* ------------------------------------------------------------------------

\* Number of executed moves a run may make away from the scripted games.
MaxFree == 1

\* Moves played in a game joined as the client.
MaxClientPly == 2

\* Moves played before the peer may still close the connection.
MaxClosePly == 1

\* ------------------------------------------------------------------------
\* Board and Piece model
\* ------------------------------------------------------------------------

\* Side length of the board: range(8).
BoardSize == 8

Rows == 0..(BoardSize - 1)

Squares == Rows \X Rows

\* Python's None: as a piece reference, as a square, as a colour.
NoPiece == 0

NoSquare == <<>>

NoColor == "none"

\* Piece identities, in the order initialize_board creates the objects.
PieceIds == 1..32

InBoard(r, c) == r \in Rows /\ c \in Rows

\* 'black' if color == 'white' else 'white'
Opponent(color) == IF color = "white" THEN "black" ELSE "white"

\* Piece.__init__
Piece(color, piece_type, row, col) ==
    [color |-> color, piece_type |-> piece_type, row |-> row, col |-> col,
     has_moved |-> FALSE]

BackRank == <<"rook", "knight", "bishop", "queen", "king", "bishop", "knight", "rook">>

\* The Piece objects created by initialize_board, by identity.
InitialPieces ==
    [id \in PieceIds |->
        IF id <= 16
        THEN IF id % 2 = 1
             THEN Piece("black", "pawn", 1, (id - 1) \div 2)
             ELSE Piece("white", "pawn", 6, (id - 2) \div 2)
        ELSE IF id <= 24
             THEN Piece("black", BackRank[id - 16], 0, id - 17)
             ELSE Piece("white", BackRank[id - 24], 7, id - 25)]

\* self.board after initialize_board.
InitialBoard ==
    [row \in Rows |-> [col \in Rows |->
        IF row = 1 THEN 2 * col + 1
        ELSE IF row = 6 THEN 2 * col + 2
        ELSE IF row = 0 THEN 17 + col
        ELSE IF row = 7 THEN 25 + col
        ELSE NoPiece]]

\* Position of a square in the row-major scan "for row ... for col ...".
ScanIndex(sq) == BoardSize * sq[1] + sq[2]

ScanSquare(k) == <<k \div BoardSize, k % BoardSize>>

\* ------------------------------------------------------------------------
\* Attack generator
\* ------------------------------------------------------------------------

RookDirs == <<<<0, 1>>, <<1, 0>>, <<0, -1>>, <<-1, 0>>>>

BishopDirs == <<<<1, 1>>, <<1, -1>>, <<-1, 1>>, <<-1, -1>>>>

QueenDirs == RookDirs \o BishopDirs

\* The knight's jumps towards higher rows only.
KnightOffsetsDown == <<<<2, 1>>, <<1, 2>>, <<1, -2>>, <<2, -1>>>>

KnightOffsets ==
    <<<<2, 1>>, <<1, 2>>, <<-1, 2>>, <<-2, 1>>, <<-2, -1>>, <<-1, -2>>, <<1, -2>>, <<2, -1>>>>

KingOffsets ==
    <<<<-1, -1>>, <<-1, 0>>, <<-1, 1>>, <<0, -1>>, <<0, 1>>, <<1, -1>>, <<1, 0>>, <<1, 1>>>>

Range(s) == {s[i] : i \in DOMAIN s}

\* -1 if piece.color == 'white' else 1
Direction(color) == IF color = "white" THEN -1 ELSE 1

\* A sliding loop that no occupied square stops.
SlideAttacksThrough(b, row, col, d) ==
    {sq \in Squares :
        \E i \in 1..(BoardSize - 1) : sq = <<row + i * d[1], col + i * d[2]>>}

\* The squares a sliding loop "for i in range(1, 8)" appends from (row, col)
\* in direction d: every square up to and including the first occupied one.
SlideAttacks(b, row, col, d) ==
    {sq \in Squares :
        \E i \in 1..(BoardSize - 1) :
            /\ sq = <<row + i * d[1], col + i * d[2]>>
            /\ \A j \in 1..(i - 1) : b[row + j * d[1]][col + j * d[2]] = NoPiece}

\* get_all_attacking_moves(piece), as the set of squares of the returned list.
GetAllAttackingMoves(b, ps, id) ==
    LET p == ps[id] IN
    CASE p.piece_type = "pawn" ->
            {sq \in Squares : /\ sq[1] = p.row + Direction(p.color)
                              /\ sq[2] \in {p.col - 1, p.col + 1}}
      [] p.piece_type = "rook" ->
            {sq \in Squares : \E k \in DOMAIN RookDirs :
                                  sq \in SlideAttacks(b, p.row, p.col, RookDirs[k])}
      [] p.piece_type = "knight" ->
            {sq \in Squares : \E k \in DOMAIN KnightOffsets :
                                  sq = <<p.row + KnightOffsets[k][1], p.col + KnightOffsets[k][2]>>}
      [] p.piece_type = "bishop" ->
            {sq \in Squares : \E k \in DOMAIN BishopDirs :
                                  sq \in SlideAttacks(b, p.row, p.col, BishopDirs[k])}
      [] p.piece_type = "queen" ->
            {sq \in Squares : \E k \in DOMAIN QueenDirs :
                                  sq \in SlideAttacks(b, p.row, p.col, QueenDirs[k])}
      [] p.piece_type = "king" ->
            {sq \in Squares : \E k \in DOMAIN KingOffsets :
                                  sq = <<p.row + KingOffsets[k][1], p.col + KingOffsets[k][2]>>}
      [] OTHER -> {}

\* find_king(color): the first king of the colour in the row-major scan.
FindKing(b, ps, color) ==
    LET kings == {sq \in Squares : /\ b[sq[1]][sq[2]] # NoPiece
                                   /\ ps[b[sq[1]][sq[2]]].color = color
                                   /\ ps[b[sq[1]][sq[2]]].piece_type = "king"}
    IN IF kings = {} THEN NoSquare
       ELSE CHOOSE k \in kings : \A o \in kings : ScanIndex(k) <= ScanIndex(o)

\* is_square_attacked(row, col, color)
IsSquareAttacked(b, ps, row, col, color) ==
    \E sq \in Squares :
        /\ b[sq[1]][sq[2]] # NoPiece
        /\ ps[b[sq[1]][sq[2]]].color = Opponent(color)
        /\ <<row, col>> \in GetAllAttackingMoves(b, ps, b[sq[1]][sq[2]])

\* is_in_check(color)
IsInCheck(b, ps, color) ==
    LET king_pos == FindKing(b, ps, color) IN
    IF king_pos = NoSquare THEN FALSE
    ELSE \E sq \in Squares :
            /\ b[sq[1]][sq[2]] # NoPiece
            /\ ps[b[sq[1]][sq[2]]].color = Opponent(color)
            /\ king_pos \in GetAllAttackingMoves(b, ps, b[sq[1]][sq[2]])

\* ------------------------------------------------------------------------
\* Legal move generator
\* ------------------------------------------------------------------------

RECURSIVE Flatten(_)
Flatten(ss) == IF ss = <<>> THEN <<>> ELSE Head(ss) \o Flatten(Tail(ss))

\* would_be_in_check(piece, to_row, to_col): the value it returns.
WouldBeInCheck(b, ps, id, to_row, to_col) ==
    LET from_row == ps[id].row
        from_col == ps[id].col
        b1 == [b EXCEPT ![from_row][from_col] = NoPiece, ![to_row][to_col] = id]
        ps1 == [ps EXCEPT ![id].row = to_row, ![id].col = to_col]
    IN IsInCheck(b1, ps1, ps[id].color)

\* An undo that puts the board back and leaves the piece's row and col at the
\* destination.
AfterWouldBeInCheckKeepsSquare(b, ps, id, to_row, to_col) ==
    [board |-> b, pieces |-> [ps EXCEPT ![id].row = to_row, ![id].col = to_col]]

\* An undo that does not put the captured piece back on the destination.
AfterWouldBeInCheckDropsCaptured(b, ps, id, to_row, to_col) ==
    [board |-> [b EXCEPT ![to_row][to_col] = NoPiece], pieces |-> ps]

\* would_be_in_check(piece, to_row, to_col): the board and the piece objects
\* as its "Temporarily make the move" and "Undo the move" leave them.
AfterWouldBeInCheck(b, ps, id, to_row, to_col) ==
    LET from_row == ps[id].row
        from_col == ps[id].col
        captured_piece == b[to_row][to_col]
        b1 == [b EXCEPT ![from_row][from_col] = NoPiece, ![to_row][to_col] = id]
        ps1 == [ps EXCEPT ![id].row = to_row, ![id].col = to_col]
        b2 == [b1 EXCEPT ![from_row][from_col] = id, ![to_row][to_col] = captured_piece]
        ps2 == [ps1 EXCEPT ![id].row = from_row, ![id].col = from_col]
    IN [board |-> b2, pieces |-> ps2]

\* "Initial double move": the test get_valid_moves makes on the pawn.
InitialDoubleMove(p) == ~p.has_moved

\* The pawn branch of get_valid_moves, before the filter.
PawnMoves(b, ps, ept, id) ==
    LET p == ps[id]
        row == p.row
        col == p.col
        direction == Direction(p.color)
        forward ==
            IF InBoard(row + direction, col) /\ b[row + direction][col] = NoPiece
            THEN <<<<row + direction, col>>>> \o
                 (IF /\ InitialDoubleMove(p)
                     /\ InBoard(row + 2 * direction, col)
                     /\ b[row + 2 * direction][col] = NoPiece
                  THEN <<<<row + 2 * direction, col>>>>
                  ELSE <<>>)
            ELSE <<>>
        Diagonal(dc) ==
            IF InBoard(row + direction, col + dc)
            THEN LET target == b[row + direction][col + dc] IN
                 IF target # NoPiece /\ ps[target].color # p.color
                 THEN <<<<row + direction, col + dc>>>>
                 ELSE IF /\ ept # NoSquare
                         /\ row + direction = ept[1]
                         /\ col + dc = ept[2]
                      THEN <<<<row + direction, col + dc>>>>
                      ELSE <<>>
            ELSE <<>>
    IN forward \o Diagonal(-1) \o Diagonal(1)

\* One sliding loop of get_valid_moves: empty squares, then the first enemy
\* piece; a friendly piece stops the ray before its square.
SlideMoves(b, ps, id, d) ==
    LET p == ps[id]
        At(i) == <<p.row + i * d[1], p.col + i * d[2]>>
        steps == {i \in 1..(BoardSize - 1) :
                     /\ InBoard(At(i)[1], At(i)[2])
                     /\ \A j \in 1..(i - 1) : b[At(j)[1]][At(j)[2]] = NoPiece
                     /\ \/ b[At(i)[1]][At(i)[2]] = NoPiece
                        \/ ps[b[At(i)[1]][At(i)[2]]].color # p.color}
    IN [i \in 1..Cardinality(steps) |-> At(i)]

\* The knight loop and the one-square king loop of get_valid_moves.
StepMoves(b, ps, id, offsets) ==
    LET p == ps[id]
        Free(sq) == /\ InBoard(sq[1], sq[2])
                    /\ \/ b[sq[1]][sq[2]] = NoPiece
                       \/ ps[b[sq[1]][sq[2]]].color # p.color
    IN SelectSeq([k \in DOMAIN offsets |-> <<p.row + offsets[k][1], p.col + offsets[k][2]>>],
                 Free)

\* The castling part without the test of the rook's has_moved.
CastlingMovesAnyRook(b, ps, id) ==
    LET p == ps[id]
        row == p.row
        Unmoved(col) == /\ b[row][col] # NoPiece
                        /\ ps[b[row][col]].piece_type = "rook"
        kingside ==
            IF /\ Unmoved(7)
               /\ b[row][5] = NoPiece
               /\ b[row][6] = NoPiece
               /\ ~IsSquareAttacked(b, ps, row, 5, p.color)
               /\ ~IsSquareAttacked(b, ps, row, 6, p.color)
            THEN <<<<row, 6>>>> ELSE <<>>
        queenside ==
            IF /\ Unmoved(0)
               /\ b[row][1] = NoPiece
               /\ b[row][2] = NoPiece
               /\ b[row][3] = NoPiece
               /\ ~IsSquareAttacked(b, ps, row, 3, p.color)
               /\ ~IsSquareAttacked(b, ps, row, 2, p.color)
            THEN <<<<row, 2>>>> ELSE <<>>
    IN IF ~p.has_moved /\ ~IsInCheck(b, ps, p.color)
       THEN kingside \o queenside
       ELSE <<>>

\* The castling part of the king branch of get_valid_moves.
CastlingMoves(b, ps, id) ==
    LET p == ps[id]
        row == p.row
        Unmoved(col) == /\ b[row][col] # NoPiece
                        /\ ps[b[row][col]].piece_type = "rook"
                        /\ ~ps[b[row][col]].has_moved
        kingside ==
            IF /\ Unmoved(7)
               /\ b[row][5] = NoPiece
               /\ b[row][6] = NoPiece
               /\ ~IsSquareAttacked(b, ps, row, 5, p.color)
               /\ ~IsSquareAttacked(b, ps, row, 6, p.color)
            THEN <<<<row, 6>>>> ELSE <<>>
        queenside ==
            IF /\ Unmoved(0)
               /\ b[row][1] = NoPiece
               /\ b[row][2] = NoPiece
               /\ b[row][3] = NoPiece
               /\ ~IsSquareAttacked(b, ps, row, 3, p.color)
               /\ ~IsSquareAttacked(b, ps, row, 2, p.color)
            THEN <<<<row, 2>>>> ELSE <<>>
    IN IF ~p.has_moved /\ ~IsInCheck(b, ps, p.color)
       THEN kingside \o queenside
       ELSE <<>>

\* The list "moves" of get_valid_moves before the filter, in the code's order.
PseudoMoves(b, ps, ept, id) ==
    LET t == ps[id].piece_type IN
    CASE t = "pawn" -> PawnMoves(b, ps, ept, id)
      [] t = "rook" -> Flatten([k \in DOMAIN RookDirs |-> SlideMoves(b, ps, id, RookDirs[k])])
      [] t = "knight" -> StepMoves(b, ps, id, KnightOffsets)
      [] t = "bishop" -> Flatten([k \in DOMAIN BishopDirs |-> SlideMoves(b, ps, id, BishopDirs[k])])
      [] t = "queen" -> Flatten([k \in DOMAIN QueenDirs |-> SlideMoves(b, ps, id, QueenDirs[k])])
      [] t = "king" -> StepMoves(b, ps, id, KingOffsets) \o CastlingMoves(b, ps, id)
      [] OTHER -> <<>>

\* The filter loop of get_valid_moves: each candidate is simulated on the
\* board the previous simulation left; valid collects the kept candidates.
RECURSIVE FilterMoves(_, _, _, _, _)
FilterMoves(b, ps, id, moves, valid) ==
    IF moves = <<>>
    THEN [moves |-> valid, board |-> b, pieces |-> ps]
    ELSE LET move == Head(moves)
             undone == AfterWouldBeInCheck(b, ps, id, move[1], move[2])
         IN FilterMoves(undone.board, undone.pieces, id, Tail(moves),
                        IF WouldBeInCheck(b, ps, id, move[1], move[2])
                        THEN valid
                        ELSE Append(valid, move))

\* get_valid_moves(piece): the returned list, and the board and pieces it leaves.
GetValidMoves(b, ps, ept, id) ==
    FilterMoves(b, ps, id, PseudoMoves(b, ps, ept, id), <<>>)

\* ------------------------------------------------------------------------
\* Terminal state evaluator
\* ------------------------------------------------------------------------

\* The scan shared by is_checkmate and is_stalemate: the pieces of the colour
\* in row-major order from scan position k, stopping at the first one that
\* has a valid move. ScanPiece continues from the moves g of the piece at k.
RECURSIVE ScanValidMoves(_, _, _, _, _)
RECURSIVE ScanPiece(_, _, _, _)
ScanValidMoves(b, ps, ept, color, k) ==
    IF k = BoardSize * BoardSize
    THEN [found |-> FALSE, board |-> b, pieces |-> ps]
    ELSE LET id == b[ScanSquare(k)[1]][ScanSquare(k)[2]] IN
         IF id # NoPiece /\ ps[id].color = color
         THEN ScanPiece(GetValidMoves(b, ps, ept, id), ept, color, k)
         ELSE ScanValidMoves(b, ps, ept, color, k + 1)

ScanPiece(g, ept, color, k) ==
    IF g.moves # <<>>
    THEN [found |-> TRUE, board |-> g.board, pieces |-> g.pieces]
    ELSE ScanValidMoves(g.board, g.pieces, ept, color, k + 1)

\* "return True" when the scan finds no move, "return False" when it does.
ScanResult(s) == [result |-> ~s.found, board |-> s.board, pieces |-> s.pieces]

\* An is_checkmate that never reports a mate.
IsCheckmateNever(b, ps, ept, color) == [result |-> FALSE, board |-> b, pieces |-> ps]

\* is_checkmate(color)
IsCheckmate(b, ps, ept, color) ==
    IF ~IsInCheck(b, ps, color)
    THEN [result |-> FALSE, board |-> b, pieces |-> ps]
    ELSE ScanResult(ScanValidMoves(b, ps, ept, color, 0))

\* An is_stalemate that never reports a stalemate.
IsStalemateNever(b, ps, ept, color) == [result |-> FALSE, board |-> b, pieces |-> ps]

\* An is_stalemate without its test of is_in_check.
IsStalemateUnchecked(b, ps, ept, color) == ScanResult(ScanValidMoves(b, ps, ept, color, 0))

\* is_stalemate(color)
IsStalemate(b, ps, ept, color) ==
    IF IsInCheck(b, ps, color)
    THEN [result |-> FALSE, board |-> b, pieces |-> ps]
    ELSE ScanResult(ScanValidMoves(b, ps, ept, color, 0))

\* ------------------------------------------------------------------------
\* Game state
\* ------------------------------------------------------------------------

VARIABLES
    board,              \* self.board[row][col]: a piece identity or NoPiece
    pieces,             \* the Piece objects: identity -> fields
    current_player,
    selected_piece,     \* a piece identity or NoPiece
    valid_moves,        \* the list of offered destinations
    game_over,
    winner,
    check,
    checkmate,
    stalemate,
    move_history,
    en_passant_target,
    player_side,
    game_mode,
    network_mode,
    server_socket,      \* TRUE while the attribute holds a socket
    client_socket,
    connection,
    is_my_turn,
    move_count,
    peer_ept,           \* en_passant_target of the peer's ChessGame
    played,             \* <<from, to>> of every move or payload carried out so far
    last,               \* what the most recent step did
    receiver,           \* where the thread running receive_moves stands
    in_flight           \* the peer's messages sent and not yet received

engine == <<board, pieces, current_player, selected_piece, valid_moves, game_over,
            winner, check, checkmate, stalemate, move_history, en_passant_target,
            player_side, game_mode, network_mode, server_socket, client_socket,
            connection, is_my_turn, move_count>>

\* The receiver thread and the messages it has yet to read.
threads == <<receiver, in_flight>>

vars == <<engine, peer_ept, played, last, threads>>

\* The ChessGame object as one value.
Game ==
    [board |-> board, pieces |-> pieces, current_player |-> current_player,
     selected_piece |-> selected_piece, valid_moves |-> valid_moves,
     game_over |-> game_over, winner |-> winner, check |-> check,
     checkmate |-> checkmate, stalemate |-> stalemate,
     move_history |-> move_history, en_passant_target |-> en_passant_target,
     player_side |-> player_side, game_mode |-> game_mode,
     network_mode |-> network_mode, server_socket |-> server_socket,
     client_socket |-> client_socket, connection |-> connection,
     is_my_turn |-> is_my_turn, move_count |-> move_count]

\* ChessGame.__init__
NewGame ==
    [board |-> InitialBoard, pieces |-> InitialPieces, current_player |-> "white",
     selected_piece |-> NoPiece, valid_moves |-> <<>>,
     game_over |-> FALSE, winner |-> NoColor, check |-> FALSE,
     checkmate |-> FALSE, stalemate |-> FALSE,
     move_history |-> <<>>, en_passant_target |-> NoSquare,
     player_side |-> NoColor, game_mode |-> "menu",
     network_mode |-> "none", server_socket |-> FALSE,
     client_socket |-> FALSE, connection |-> FALSE,
     is_my_turn |-> FALSE, move_count |-> 0]

Abs(x) == IF x < 0 THEN -x ELSE x

\* The statement that holds the turn where it is, in place of "Switch players".
NextPlayerSame(color) == color

\* "Switch players": the value assigned to self.current_player.
NextPlayer(color) == IF color = "white" THEN "black" ELSE "white"

\* ------------------------------------------------------------------------
\* Move executor
\* ------------------------------------------------------------------------

\* select_piece(row, col), g being get_valid_moves of the piece on the square.
Selected(G, piece, g) ==
    [ok |-> TRUE,
     game |-> [G EXCEPT !.selected_piece = piece, !.valid_moves = g.moves,
                        !.board = g.board, !.pieces = g.pieces]]

\* select_piece(row, col)
SelectPiece(G, row, col) ==
    IF G.board[row][col] # NoPiece /\ G.pieces[G.board[row][col]].color = G.current_player
    THEN Selected(G, G.board[row][col],
                  GetValidMoves(G.board, G.pieces, G.en_passant_target, G.board[row][col]))
    ELSE [ok |-> FALSE, game |-> G]

\* promote_pawn(pawn)
PromotePawn(ps, pawn) == [ps EXCEPT ![pawn].piece_type = "queen"]

\* "self.stalemate = True; self.game_over = True" when is_stalemate answered sm.
SetStalemate(G, sm) ==
    IF sm.result
    THEN [G EXCEPT !.board = sm.board, !.pieces = sm.pieces,
                   !.stalemate = TRUE, !.game_over = TRUE]
    ELSE [G EXCEPT !.board = sm.board, !.pieces = sm.pieces]

\* The branch "if self.is_checkmate(...) ... elif self.is_stalemate(...)" when
\* is_checkmate answered cm.
SetCheckmate(G, cm) ==
    IF cm.result
    THEN [G EXCEPT !.board = cm.board, !.pieces = cm.pieces,
                   !.checkmate = TRUE, !.game_over = TRUE,
                   !.winner = Opponent(G.current_player)]
    ELSE SetStalemate(G, IsStalemate(cm.board, cm.pieces, G.en_passant_target,
                                     G.current_player))

\* The block "Check for check/checkmate" after self.check is assigned.
SetTerminal(G) ==
    IF G.check
    THEN SetCheckmate(G, IsCheckmate(G.board, G.pieces, G.en_passant_target,
                                     G.current_player))
    ELSE SetStalemate(G, IsStalemate(G.board, G.pieces, G.en_passant_target,
                                     G.current_player))

\* The block "Check for check/checkmate" that ends move_piece and
\* apply_remote_move, run on a game whose side to move is already switched.
EvaluateTerminal(G) ==
    SetTerminal([G EXCEPT !.check = IsInCheck(G.board, G.pieces, G.current_player)])

\* The dictionary move_piece appends to move_history, from the game as it is
\* before the move.
MoveRecord(G, to_row, to_col) ==
    LET sel == G.selected_piece
        from_row == G.pieces[sel].row
        from_col == G.pieces[sel].col
        ept == G.en_passant_target
        en_passant_capture == /\ G.pieces[sel].piece_type = "pawn"
                              /\ ept # NoSquare
                              /\ to_row = ept[1]
                              /\ to_col = ept[2]
    IN [from |-> <<from_row, from_col>>, to |-> <<to_row, to_col>>,
        piece |-> sel,
        captured |-> IF en_passant_capture
                     THEN G.board[from_row][to_col]
                     ELSE G.board[to_row][to_col],
        en_passant |-> en_passant_capture,
        castling |-> G.pieces[sel].piece_type = "king" /\ Abs(to_col - from_col) = 2]

\* A rook_to_col that is the rook's own corner.
RookToColCorner(from_col, to_col) == IF to_col > from_col THEN 7 ELSE 0

\* rook_to_col of move_piece: the square next to the king's destination, on
\* the side the king came from.
RookToCol(from_col, to_col) == IF to_col > from_col THEN to_col - 1 ELSE to_col + 1

\* A "return False" that counts the call as a move.
RefusedCounted(G) ==
    [ok |-> FALSE, raised |-> FALSE, game |-> [G EXCEPT !.move_count = G.move_count + 1]]

\* The "return False" that opens move_piece.
Refused(G) == [ok |-> FALSE, raised |-> FALSE, game |-> G]

\* move_piece(to_row, to_col): the return value and the game it leaves.
MovePiece(G, to_row, to_col) ==
    IF G.selected_piece = NoPiece
    THEN Refused(G)
    ELSE IF <<to_row, to_col>> \notin Range(G.valid_moves)
    THEN Refused(G)
    ELSE
    LET sel == G.selected_piece
        kind == G.pieces[sel].piece_type
        record == MoveRecord(G, to_row, to_col)
        from_row == record.from[1]
        from_col == record.from[2]
        b1 == IF record.en_passant
              THEN [G.board EXCEPT ![from_row][to_col] = NoPiece]
              ELSE G.board
        rook_from_col == IF to_col > from_col THEN 7 ELSE 0
        rook_to_col == RookToCol(from_col, to_col)
        rook == b1[from_row][rook_from_col]
        b2 == IF record.castling
              THEN [b1 EXCEPT ![from_row][rook_from_col] = NoPiece,
                              ![from_row][rook_to_col] = rook]
              ELSE b1
    IN
    IF record.castling /\ rook = NoPiece
    THEN \* rook.col on None raises after the two board writes
         [ok |-> FALSE, raised |-> TRUE, game |-> [G EXCEPT !.board = b2]]
    ELSE
    LET ps2 == IF record.castling
               THEN [G.pieces EXCEPT ![rook].col = rook_to_col, ![rook].has_moved = TRUE]
               ELSE G.pieces
        b3 == [b2 EXCEPT ![from_row][from_col] = NoPiece, ![to_row][to_col] = sel]
        ps3 == [ps2 EXCEPT ![sel].row = to_row, ![sel].col = to_col, ![sel].has_moved = TRUE]
        ept1 == IF kind = "pawn" /\ Abs(to_row - from_row) = 2
                THEN <<(from_row + to_row) \div 2, to_col>>
                ELSE NoSquare
        promotes == /\ kind = "pawn"
                    /\ \/ ps3[sel].color = "white" /\ to_row = 0
                       \/ ps3[sel].color = "black" /\ to_row = 7
        ps4 == IF promotes THEN PromotePawn(ps3, sel) ELSE ps3
        cp == NextPlayer(G.current_player)
        G1 == [G EXCEPT !.board = b3, !.pieces = ps4, !.en_passant_target = ept1,
                        !.current_player = cp, !.move_count = G.move_count + 1,
                        !.is_my_turn = IF G.network_mode # "none" /\ G.player_side # NoColor
                                       THEN G.player_side = cp
                                       ELSE G.is_my_turn]
        G2 == EvaluateTerminal(G1)
    IN [ok |-> TRUE, raised |-> FALSE,
        game |-> [G2 EXCEPT !.move_history = Append(G.move_history, record),
                            !.selected_piece = NoPiece, !.valid_moves = <<>>]]

\* ------------------------------------------------------------------------
\* Remote move applier and transport
\* ------------------------------------------------------------------------

\* The dictionary the main loop builds from move_history[-1] and sends.
Payload(record) ==
    [from |-> record.from, to |-> record.to,
     castling |-> record.castling, en_passant |-> record.en_passant]

\* apply_remote_move(move_data) up to the switch of the side to move: whether
\* it raised, and the game as it stands before check, checkmate and stalemate
\* are evaluated.
ApplyRemoteMoveSwitched(G, move_data) ==
    LET from_pos == move_data.from
        to_pos == move_data.to
    IN
    IF ~InBoard(from_pos[1], from_pos[2])
    THEN [raised |-> TRUE, game |-> G]
    ELSE
    LET piece == G.board[from_pos[1]][from_pos[2]]
        b1 == [G.board EXCEPT ![from_pos[1]][from_pos[2]] = NoPiece]
    IN
    IF ~InBoard(to_pos[1], to_pos[2])
    THEN [raised |-> TRUE, game |-> [G EXCEPT !.board = b1]]
    ELSE
    LET b2 == [b1 EXCEPT ![to_pos[1]][to_pos[2]] = piece] IN
    IF piece = NoPiece
    THEN [raised |-> TRUE, game |-> [G EXCEPT !.board = b2]]
    ELSE
    LET ps1 == [G.pieces EXCEPT ![piece].row = to_pos[1], ![piece].col = to_pos[2],
                                ![piece].has_moved = TRUE]
        rook_from_col == IF to_pos[2] > from_pos[2] THEN 7 ELSE 0
        rook_to_col == IF to_pos[2] > from_pos[2] THEN 5 ELSE 3
        rook == b2[from_pos[1]][rook_from_col]
        b3 == IF move_data.castling
              THEN [b2 EXCEPT ![from_pos[1]][rook_from_col] = NoPiece,
                              ![from_pos[1]][rook_to_col] = rook]
              ELSE b2
    IN
    IF move_data.castling /\ rook = NoPiece
    THEN [raised |-> TRUE, game |-> [G EXCEPT !.board = b3, !.pieces = ps1]]
    ELSE
    LET ps2 == IF move_data.castling
               THEN [ps1 EXCEPT ![rook].col = rook_to_col, ![rook].has_moved = TRUE]
               ELSE ps1
        b4 == IF move_data.en_passant
              THEN [b3 EXCEPT ![from_pos[1]][to_pos[2]] = NoPiece]
              ELSE b3
        G1 == [G EXCEPT !.board = b4, !.pieces = ps2,
                        !.current_player = NextPlayer(G.current_player),
                        !.move_count = G.move_count + 1,
                        !.is_my_turn = ~G.is_my_turn]
    IN [raised |-> FALSE, game |-> G1]

\* The end of apply_remote_move: check, checkmate and stalemate of the side
\* now to move, when nothing raised before.
Evaluated(r) ==
    IF r.raised THEN r ELSE [raised |-> FALSE, game |-> EvaluateTerminal(r.game)]

\* apply_remote_move(move_data): whether it raised, and the game it leaves.
ApplyRemoteMove(G, move_data) == Evaluated(ApplyRemoteMoveSwitched(G, move_data))

\* A handle_connection_error() that also forgets the moves made.
HandleConnectionErrorForgets(G) ==
    [G EXCEPT !.game_mode = "menu", !.server_socket = FALSE,
              !.client_socket = FALSE, !.connection = FALSE,
              !.move_history = <<>>]

\* handle_connection_error()
HandleConnectionError(G) ==
    [G EXCEPT !.game_mode = "menu", !.server_socket = FALSE,
              !.client_socket = FALSE, !.connection = FALSE]

\* connect_to_server(host, port), when connect succeeds: player_side stays as
\* it was until the side message is received.
ConnectToServerConnected(G) ==
    [G EXCEPT !.client_socket = TRUE, !.connection = TRUE,
              !.network_mode = "client", !.move_count = 0,
              !.game_mode = "playing"]

\* receive_moves on a message of type 'side'.
ReceiveSideMessage(G, side) ==
    [G EXCEPT !.player_side = side, !.is_my_turn = (side = "white")]

\* The head of the loop in receive_moves after an iteration that left game
\* G: the thread leaves the loop, blocks in recv, or sleeps and comes round
\* again with no connection to read.
LoopHead(G) ==
    IF G.game_mode # "playing" THEN "exited"
    ELSE IF G.connection THEN "recv" ELSE "spin"

\* start_server(port, side), when bind, listen and accept succeed.
StartServerAccepted(G, side) ==
    [G EXCEPT !.server_socket = TRUE, !.connection = TRUE,
              !.network_mode = "server", !.player_side = side,
              !.is_my_turn = (side = "white"), !.move_count = 0,
              !.game_mode = "playing"]

\* The main loop after move_piece answered m: select_piece when it failed.
ClickMoved(m, row, col) ==
    IF ~m.ok
    THEN [moved |-> FALSE, tried |-> TRUE, select |-> SelectPiece(m.game, row, col)]
    ELSE [moved |-> TRUE, tried |-> TRUE, select |-> [ok |-> FALSE, game |-> m.game]]

\* One left click on square (row, col) while game_mode is 'playing': what the
\* main loop does with it. select.game is the game the click leaves.
ClickSquare(G, row, col) ==
    IF G.player_side = NoColor \/ (G.player_side = G.current_player /\ G.is_my_turn)
    THEN IF G.selected_piece # NoPiece
         THEN ClickMoved(MovePiece(G, row, col), row, col)
         ELSE [moved |-> FALSE, tried |-> FALSE, select |-> SelectPiece(G, row, col)]
    ELSE [moved |-> FALSE, tried |-> FALSE, select |-> [ok |-> FALSE, game |-> G]]

\* ------------------------------------------------------------------------
\* The games the players follow
\* ------------------------------------------------------------------------

\* White king h5, pawn g5 and black queen a5 on one rank; black answers with
\* f7-f5 and white takes en passant: 1.g4 c6 2.g5 Qa5 3.f3 a6 4.Kf2 b6 5.Kg3 e6
\* 6.Kh4 h6 7.Kh5 f5 8.gxf6.
LineEpPin ==
    <<<<<<6, 6>>, <<4, 6>>>>, <<<<1, 2>>, <<2, 2>>>>, <<<<4, 6>>, <<3, 6>>>>, <<<<0, 3>>, <<3, 0>>>>,
      <<<<6, 5>>, <<5, 5>>>>, <<<<1, 0>>, <<2, 0>>>>, <<<<7, 4>>, <<6, 5>>>>, <<<<1, 1>>, <<2, 1>>>>,
      <<<<6, 5>>, <<5, 6>>>>, <<<<1, 4>>, <<2, 4>>>>, <<<<5, 6>>, <<4, 7>>>>, <<<<1, 7>>, <<2, 7>>>>,
      <<<<4, 7>>, <<3, 7>>>>, <<<<1, 5>>, <<3, 5>>>>, <<<<3, 6>>, <<2, 5>>>>>>

\* Fool's mate: 1.f3 e5 2.g4 Qh4#.
LineMate ==
    <<<<<<6, 5>>, <<5, 5>>>>, <<<<1, 4>>, <<3, 4>>>>, <<<<6, 6>>, <<4, 6>>>>, <<<<0, 3>>, <<4, 7>>>>>>

\* The ten-move stalemate: 1.e3 a5 2.Qh5 Ra6 3.Qxa5 h5 4.h4 Rah6 5.Qxc7 f6
\* 6.Qxd7+ Kf7 7.Qxb7 Qd3 8.Qxb8 Qh7 9.Qxc8 Kg6 10.Qe6.
LineStale ==
    <<<<<<6, 4>>, <<5, 4>>>>, <<<<1, 0>>, <<3, 0>>>>, <<<<7, 3>>, <<3, 7>>>>, <<<<0, 0>>, <<2, 0>>>>,
      <<<<3, 7>>, <<3, 0>>>>, <<<<1, 7>>, <<3, 7>>>>, <<<<6, 7>>, <<4, 7>>>>, <<<<2, 0>>, <<2, 7>>>>,
      <<<<3, 0>>, <<1, 2>>>>, <<<<1, 5>>, <<2, 5>>>>, <<<<1, 2>>, <<1, 3>>>>, <<<<0, 4>>, <<1, 5>>>>,
      <<<<1, 3>>, <<1, 1>>>>, <<<<0, 3>>, <<5, 3>>>>, <<<<1, 1>>, <<0, 1>>>>, <<<<5, 3>>, <<1, 7>>>>,
      <<<<0, 1>>, <<0, 2>>>>, <<<<1, 5>>, <<2, 6>>>>, <<<<0, 2>>, <<2, 4>>>>>>

\* An en-passant capture: 1.e4 a6 2.e5 d5 3.exd6.
LineEp ==
    <<<<<<6, 4>>, <<4, 4>>>>, <<<<1, 0>>, <<2, 0>>>>, <<<<4, 4>>, <<3, 4>>>>, <<<<1, 3>>, <<3, 3>>>>,
      <<<<3, 4>>, <<2, 3>>>>>>

\* Both sides castle short: 1.e4 e5 2.Nf3 Nf6 3.Bc4 Bc5 4.O-O O-O.
LineCastle ==
    <<<<<<6, 4>>, <<4, 4>>>>, <<<<1, 4>>, <<3, 4>>>>, <<<<7, 6>>, <<5, 5>>>>, <<<<0, 6>>, <<2, 5>>>>,
      <<<<7, 5>>, <<4, 2>>>>, <<<<0, 5>>, <<3, 2>>>>, <<<<7, 4>>, <<7, 6>>>>, <<<<0, 4>>, <<0, 6>>>>>>

\* The king's rooks move out and back: 1.Nf3 Nf6 2.Rg1 Rg8 3.Rh1 Rh8 4.e4 e5
\* 5.Bc4 Bc5.
LineRookBack ==
    <<<<<<7, 6>>, <<5, 5>>>>, <<<<0, 6>>, <<2, 5>>>>, <<<<7, 7>>, <<7, 6>>>>, <<<<0, 7>>, <<0, 6>>>>,
      <<<<7, 6>>, <<7, 7>>>>, <<<<0, 6>>, <<0, 7>>>>, <<<<6, 4>>, <<4, 4>>>>, <<<<1, 4>>, <<3, 4>>>>,
      <<<<7, 5>>, <<4, 2>>>>, <<<<0, 5>>, <<3, 2>>>>>>

\* Black's bishop on c5 attacks g1: 1.e4 e5 2.f4 Bc5 3.Nf3 d6 4.Bc4.
LineLandAtt ==
    <<<<<<6, 4>>, <<4, 4>>>>, <<<<1, 4>>, <<3, 4>>>>, <<<<6, 5>>, <<4, 5>>>>, <<<<0, 5>>, <<3, 2>>>>,
      <<<<7, 6>>, <<5, 5>>>>, <<<<1, 3>>, <<2, 3>>>>, <<<<7, 5>>, <<4, 2>>>>>>

\* A pawn promotes on f8 next to the black king: 1.h4 g5 2.hxg5 a6 3.g6 a5
\* 4.g7 a4 5.gxf8.
LinePromo ==
    <<<<<<6, 7>>, <<4, 7>>>>, <<<<1, 6>>, <<3, 6>>>>, <<<<4, 7>>, <<3, 6>>>>, <<<<1, 0>>, <<2, 0>>>>,
      <<<<3, 6>>, <<2, 6>>>>, <<<<2, 0>>, <<3, 0>>>>, <<<<2, 6>>, <<1, 6>>>>, <<<<3, 0>>, <<4, 0>>>>,
      <<<<1, 6>>, <<0, 5>>>>>>

\* The king's rook leaves and returns while the black knight does the same,
\* and then leaves again: 1.Nf3 Nf6 2.Rg1 Ng8 3.Rh1 Nf6 4.Rg1.
LineRookReturn ==
    <<<<<<7, 6>>, <<5, 5>>>>, <<<<0, 6>>, <<2, 5>>>>, <<<<7, 7>>, <<7, 6>>>>, <<<<2, 5>>, <<0, 6>>>>,
      <<<<7, 6>>, <<7, 7>>>>, <<<<0, 6>>, <<2, 5>>>>, <<<<7, 7>>, <<7, 6>>>>>>

Lines ==
    {LineEpPin, LineMate, LineStale, LineEp, LineCastle, LineRookBack, LineLandAtt, LinePromo,
     LineRookReturn}

IsPrefix(p, L) == Len(p) <= Len(L) /\ SubSeq(L, 1, Len(p)) = p

OnScript(p) == \E L \in Lines : IsPrefix(p, L)

\* The moves that continue one of the games from p.
NextScripted(p) == {L[Len(p) + 1] : L \in {M \in Lines : Len(M) > Len(p) /\ IsPrefix(p, M)}}

\* Number of moves of p made after leaving the games.
FreeMoves(p) ==
    LET on == {n \in 0..Len(p) : OnScript(SubSeq(p, 1, n))}
    IN Len(p) - (CHOOSE n \in on : \A m \in on : m <= n)

\* The players may still leave the games.
Budget(p) == FreeMoves(p) < MaxFree

\* The squares a player following the games clicks next.
ScriptSquares(p) == UNION {{m[1], m[2]} : m \in NextScripted(p)}

\* ------------------------------------------------------------------------
\* Steps of the program
\* ------------------------------------------------------------------------

SetGame(G) ==
    /\ board' = G.board
    /\ pieces' = G.pieces
    /\ current_player' = G.current_player
    /\ selected_piece' = G.selected_piece
    /\ valid_moves' = G.valid_moves
    /\ game_over' = G.game_over
    /\ winner' = G.winner
    /\ check' = G.check
    /\ checkmate' = G.checkmate
    /\ stalemate' = G.stalemate
    /\ move_history' = G.move_history
    /\ en_passant_target' = G.en_passant_target
    /\ player_side' = G.player_side
    /\ game_mode' = G.game_mode
    /\ network_mode' = G.network_mode
    /\ server_socket' = G.server_socket
    /\ client_socket' = G.client_socket
    /\ connection' = G.connection
    /\ is_my_turn' = G.is_my_turn
    /\ move_count' = G.move_count

Step(op, from, to) == [op |-> op, from |-> from, to |-> to]

\* Menu screen: the "Local Play" button.
MenuLocal ==
    /\ game_mode = "menu"
    /\ SetGame([Game EXCEPT !.game_mode = "playing", !.player_side = NoColor])
    /\ last' = Step("menu", NoSquare, NoSquare)
    /\ UNCHANGED <<peer_ept, played, threads>>

\* Menu screen: the "Play Online" button.
MenuOnline ==
    /\ game_mode = "menu"
    /\ SetGame([Game EXCEPT !.game_mode = "online_menu"])
    /\ last' = Step("menu", NoSquare, NoSquare)
    /\ UNCHANGED <<peer_ept, played, threads>>

\* Online menu: the "Host Game" button.
OnlineServer ==
    /\ game_mode = "online_menu"
    /\ SetGame([Game EXCEPT !.game_mode = "side_selection"])
    /\ last' = Step("menu", NoSquare, NoSquare)
    /\ UNCHANGED <<peer_ept, played, threads>>

\* Online menu: the "Back" button.
OnlineBack ==
    /\ game_mode = "online_menu"
    /\ SetGame([Game EXCEPT !.game_mode = "menu"])
    /\ last' = Step("menu", NoSquare, NoSquare)
    /\ UNCHANGED <<peer_ept, played, threads>>

\* Side selection: "Play as White" or "Play as Black".
SideSelection ==
    /\ game_mode = "side_selection"
    /\ \E side \in {"white", "black"} :
          SetGame([Game EXCEPT !.game_mode = "server_setup", !.player_side = side])
    /\ last' = Step("menu", NoSquare, NoSquare)
    /\ UNCHANGED <<peer_ept, played, threads>>

\* Server setup: the "Start Server" button, a peer connects.
StartServer ==
    /\ game_mode = "server_setup"
    /\ receiver \in {"none", "exited"}
    /\ SetGame(StartServerAccepted(Game, player_side))
    /\ last' = Step("menu", NoSquare, NoSquare)
    /\ receiver' = "recv"
    /\ UNCHANGED <<peer_ept, played, in_flight>>

\* Online menu: the "Join Game" button.
OnlineClient ==
    /\ game_mode = "online_menu"
    /\ SetGame([Game EXCEPT !.game_mode = "client_setup"])
    /\ last' = Step("menu", NoSquare, NoSquare)
    /\ UNCHANGED <<peer_ept, played, threads>>

\* The message by which the host assigns this peer its side.
SideMessage(side) ==
    [type |-> "side", side |-> side, from |-> NoSquare, to |-> NoSquare,
     castling |-> FALSE, en_passant |-> FALSE]

\* A move message of the peer.
MoveMessage(move_data) ==
    [type |-> "move", side |-> NoColor, from |-> move_data.from, to |-> move_data.to,
     castling |-> move_data.castling, en_passant |-> move_data.en_passant]

\* Client setup: the "Connect" button, the host accepts and sends the side
\* it leaves to this peer.
ConnectToServer ==
    /\ game_mode = "client_setup"
    /\ receiver \in {"none", "exited"}
    /\ SetGame(ConnectToServerConnected(Game))
    /\ last' = Step("menu", NoSquare, NoSquare)
    /\ receiver' = "recv"
    /\ \E side \in {"white", "black"} : in_flight' = {SideMessage(side)}
    /\ UNCHANGED <<peer_ept, played>>

\* One iteration of receive_moves on the side message: the thread blocked
\* in recv reads it whatever became of the game meanwhile.
ReceiveSide ==
    /\ receiver = "recv"
    /\ \E m \in in_flight :
          /\ m.type = "side"
          /\ SetGame(ReceiveSideMessage(Game, m.side))
          /\ in_flight' = in_flight \ {m}
          /\ last' = Step("side", NoSquare, NoSquare)
    /\ receiver' = LoopHead(Game)
    /\ UNCHANGED <<peer_ept, played>>

\* The squares the players click: the squares of the games they follow and,
\* while they may leave the games, any square to pick a piece and any offered
\* destination to move it.
ClickInput(sq) ==
    IF sq \in ScriptSquares(played)
    THEN TRUE
    ELSE IF Budget(played)
         THEN IF selected_piece = NoPiece THEN TRUE ELSE sq \in Range(valid_moves)
         ELSE FALSE

\* The step of a click whose handling came out as c.
ClickStep(c, sq) ==
    /\ ~c.tried => c.select.ok
    /\ IF c.moved
       THEN LET record == c.select.game.move_history[Len(c.select.game.move_history)]
                mv == <<record.from, record.to>>
            IN /\ FreeMoves(Append(played, mv)) <= MaxFree
               /\ network_mode = "client" => Len(played) < MaxClientPly
               /\ played' = Append(played, mv)
               /\ last' = Step("move", record.from, record.to)
       ELSE /\ played' = played
            /\ last' = Step(IF ~c.select.ok THEN "rejected"
                            ELSE IF c.tried THEN "reselect" ELSE "select",
                            NoSquare, sq)
    /\ SetGame(c.select.game)

\* A left click on a square while playing.
Click ==
    /\ game_mode = "playing"
    /\ \E sq \in Squares :
          /\ ClickInput(sq)
          /\ ClickStep(ClickSquare(Game, sq[1], sq[2]), sq)
    /\ UNCHANGED <<peer_ept, threads>>

\* The receiver after apply_remote_move came out as r:
\* handle_connection_error when it raised.
ReceiveStep(r, move_data) ==
    /\ SetGame(IF r.raised THEN HandleConnectionError(r.game) ELSE r.game)
    /\ played' = Append(played, <<move_data.from, move_data.to>>)
    /\ last' = Step(IF r.raised THEN "remote_raised" ELSE "remote",
                    move_data.from, move_data.to)
    /\ receiver' = IF r.raised THEN "exited" ELSE LoopHead(r.game)
    /\ in_flight' = in_flight

\* One iteration of receive_moves on a move message.
Receive(move_data) == ReceiveStep(ApplyRemoteMove(Game, move_data), move_data)

\* The destinations the peer's game offers for the piece on from.
PeerMoves(from) ==
    SelectPiece([Game EXCEPT !.en_passant_target = peer_ept], from[1], from[2]).game

\* The peer moved the piece on from to to: the message and its en_passant_target.
PeerMoved(peer, from, to) ==
    /\ Receive(Payload(MoveRecord(peer, to[1], to[2])))
    /\ peer_ept' = IF /\ peer.pieces[peer.selected_piece].piece_type = "pawn"
                      /\ Abs(to[1] - from[1]) = 2
                   THEN <<(from[1] + to[1]) \div 2, to[2]>>
                   ELSE NoSquare

\* The peer, whose turn it is, picks one of the destinations its game offers.
PeerChoice(peer, from) ==
    \E to \in Range(peer.valid_moves) :
       /\ FreeMoves(Append(played, <<from, to>>)) <= MaxFree
       /\ PeerMoved(peer, from, to)

\* The peer, whose turn it is, sends a move its own move_piece accepted.
ReceivePeerMove ==
    /\ receiver = "recv"
    /\ game_mode = "playing"
    /\ connection
    /\ player_side # NoColor
    /\ current_player # player_side
    /\ network_mode = "client" => Len(played) < MaxClientPly
    /\ \E from \in Squares :
          /\ board[from[1]][from[2]] # NoPiece
          /\ pieces[board[from[1]][from[2]]].color = current_player
          /\ ~Budget(played) => from \in {m[1] : m \in NextScripted(played)}
          /\ PeerChoice(PeerMoves(from), from)

\* Payloads no move_piece produced: an empty origin square, an origin row
\* outside the board, a destination row outside the board.
MalformedPayloads ==
    {[from |-> <<3, 3>>, to |-> <<0, 4>>, castling |-> FALSE, en_passant |-> FALSE],
     [from |-> <<BoardSize, 0>>, to |-> <<0, 0>>, castling |-> FALSE, en_passant |-> FALSE],
     [from |-> <<6, 0>>, to |-> <<BoardSize, 0>>, castling |-> FALSE, en_passant |-> FALSE]}

IsMalformed(G, move_data) ==
    IF InBoard(move_data.from[1], move_data.from[2]) /\ InBoard(move_data.to[1], move_data.to[2])
    THEN G.board[move_data.from[1]][move_data.from[2]] = NoPiece
    ELSE TRUE

\* The peer sends a payload that is no move.
ReceiveMalformed ==
    /\ receiver = "recv"
    /\ game_mode = "playing"
    /\ connection
    /\ player_side # NoColor
    /\ current_player # player_side
    /\ Budget(played)
    /\ \E move_data \in MalformedPayloads :
          /\ IsMalformed(Game, move_data)
          /\ Receive(move_data)
    /\ UNCHANGED peer_ept

\* What played holds after the 'R' key: no game is followed any more.
ResetMark == <<<<BoardSize, BoardSize>>, <<BoardSize, BoardSize>>>>

\* The messages of the peer that the 'R' key overtakes: the peer, left
\* unaware of the reset, sends the next move of the game it follows when it
\* is its turn, or nothing.
PeerReplies ==
    IF receiver = "recv" /\ player_side # NoColor /\ current_player # player_side
    THEN {{}} \cup {{MoveMessage(Payload(MoveRecord(PeerMoves(mv[1]), mv[2][1], mv[2][2])))} :
                        mv \in NextScripted(played)}
    ELSE {{}}

\* The 'R' key while playing: reset() builds the game anew and the main loop
\* shows the menu. No socket is closed, so a receiver blocked in recv stays
\* blocked on the connection the game no longer refers to.
Reset ==
    /\ game_mode = "playing"
    /\ IF receiver = "spin" THEN TRUE ELSE Budget(played)
    /\ SetGame(NewGame)
    /\ played' = <<ResetMark>>
    /\ peer_ept' = NoSquare
    /\ last' = Step("reset", NoSquare, NoSquare)
    /\ receiver' = receiver
    /\ \E sent \in PeerReplies : in_flight' = in_flight \cup sent

\* The receiver after apply_remote_move on message m, read after a reset,
\* came out as r.
StaleStep(r, m) ==
    /\ SetGame(IF r.raised THEN HandleConnectionError(r.game) ELSE r.game)
    /\ last' = Step(IF r.raised THEN "stale_raised" ELSE "stale", m.from, m.to)
    /\ receiver' = IF r.raised THEN "exited" ELSE LoopHead(r.game)
    /\ in_flight' = in_flight \ {m}

\* One iteration of receive_moves on a move message that the reset overtook.
ReceiveStale ==
    /\ receiver = "recv"
    /\ \E m \in in_flight :
          /\ m.type = "move"
          /\ StaleStep(ApplyRemoteMove(Game, [from |-> m.from, to |-> m.to,
                                              castling |-> m.castling,
                                              en_passant |-> m.en_passant]), m)
    /\ UNCHANGED <<peer_ept, played>>

\* The receiver, iterating with no connection to read, finds game_mode
\* changed and leaves the loop.
ReceiverExit ==
    /\ receiver = "spin"
    /\ game_mode # "playing"
    /\ receiver' = "exited"
    /\ last' = Step("exit", NoSquare, NoSquare)
    /\ UNCHANGED <<engine, peer_ept, played, in_flight>>

\* What played holds once the peer has closed the connection: no game is
\* followed any more.
CloseMark == <<<<BoardSize, 0>>, <<BoardSize, 0>>>>

\* The peer closes the connection: recv returns no data, receive_moves runs
\* handle_connection_error and leaves its loop.
PeerCloses ==
    /\ receiver = "recv"
    /\ Len(played) <= MaxClosePly
    /\ SetGame(HandleConnectionError(Game))
    /\ played' = Append(played, CloseMark)
    /\ last' = Step("closed", NoSquare, NoSquare)
    /\ receiver' = "exited"
    /\ UNCHANGED <<peer_ept, in_flight>>

\* The receiver thread has run apply_remote_move on the peer's move up to the
\* switch of the side to move; r is what it left.
AppliedStep(r, from, to) ==
    /\ ~r.raised
    /\ SetGame(r.game)
    /\ played' = Append(played, <<from, to>>)
    /\ last' = Step("remote_applied", from, to)
    /\ receiver' = "evaluate"
    /\ in_flight' = in_flight

\* The peer moved the piece on from to to and the receiver thread applied the
\* message up to the switch of the side to move.
PeerApplied(peer, from, to) ==
    /\ FreeMoves(Append(played, <<from, to>>)) <= MaxFree
    /\ AppliedStep(ApplyRemoteMoveSwitched(Game, Payload(MoveRecord(peer, to[1], to[2]))),
                   from, to)
    /\ peer_ept' = IF /\ peer.pieces[peer.selected_piece].piece_type = "pawn"
                      /\ Abs(to[1] - from[1]) = 2
                   THEN <<(from[1] + to[1]) \div 2, to[2]>>
                   ELSE NoSquare

\* The receiver thread, scheduled by itself: the first part of
\* apply_remote_move on a move the peer's move_piece accepted.
ReceiveApplied ==
    /\ receiver = "recv"
    /\ game_mode = "playing"
    /\ connection
    /\ player_side # NoColor
    /\ current_player # player_side
    /\ \E from \in Squares :
          /\ board[from[1]][from[2]] # NoPiece
          /\ pieces[board[from[1]][from[2]]].color = current_player
          /\ ~Budget(played) => from \in {m[1] : m \in NextScripted(played)}
          /\ \E to \in Range(PeerMoves(from).valid_moves) :
                PeerApplied(PeerMoves(from), from, to)

\* The receiver thread, scheduled by itself: the rest of apply_remote_move,
\* on the game as the main loop left it meanwhile.
ReceiveEvaluated ==
    /\ receiver = "evaluate"
    /\ SetGame(EvaluateTerminal(Game))
    /\ last' = Step("remote_evaluated", NoSquare, NoSquare)
    /\ receiver' = LoopHead(Game)
    /\ UNCHANGED <<peer_ept, played, in_flight>>

Init ==
    /\ board = NewGame.board
    /\ pieces = NewGame.pieces
    /\ current_player = NewGame.current_player
    /\ selected_piece = NewGame.selected_piece
    /\ valid_moves = NewGame.valid_moves
    /\ game_over = NewGame.game_over
    /\ winner = NewGame.winner
    /\ check = NewGame.check
    /\ checkmate = NewGame.checkmate
    /\ stalemate = NewGame.stalemate
    /\ move_history = NewGame.move_history
    /\ en_passant_target = NewGame.en_passant_target
    /\ player_side = NewGame.player_side
    /\ game_mode = NewGame.game_mode
    /\ network_mode = NewGame.network_mode
    /\ server_socket = NewGame.server_socket
    /\ client_socket = NewGame.client_socket
    /\ connection = NewGame.connection
    /\ is_my_turn = NewGame.is_my_turn
    /\ move_count = NewGame.move_count
    /\ peer_ept = NoSquare
    /\ played = <<>>
    /\ last = Step("init", NoSquare, NoSquare)
    /\ receiver = "none"
    /\ in_flight = {}

Next ==
    \/ MenuLocal
    \/ MenuOnline
    \/ OnlineServer
    \/ OnlineBack
    \/ SideSelection
    \/ StartServer
    \/ OnlineClient
    \/ ConnectToServer
    \/ ReceiveSide
    \/ Click
    \/ ReceivePeerMove
    \/ ReceiveMalformed
    \/ PeerCloses
    \/ Reset
    \/ ReceiveStale
    \/ ReceiverExit

Spec == Init /\ [][Next]_vars

\* A hosted game with the main loop and the receiver thread each scheduled
\* by itself: a click may fall between the two parts of apply_remote_move.
NextThreads ==
    \/ MenuOnline
    \/ OnlineServer
    \/ SideSelection
    \/ StartServer
    \/ Click
    \/ ReceiveApplied
    \/ ReceiveEvaluated

SpecThreads == Init /\ [][NextThreads]_vars

\* ------------------------------------------------------------------------
\* Properties
\* ------------------------------------------------------------------------

\* The steps that executed a move: move_piece returning True, and
\* apply_remote_move running to its end.
ExecutedOps == {"move", "remote"}

\* The piece object is the one the board holds on the object's own square.
OnBoard(b, ps, id) ==
    /\ InBoard(ps[id].row, ps[id].col)
    /\ b[ps[id].row][ps[id].col] = id

\* Some piece of the colour has a destination in get_valid_moves.
HasValidMove(b, ps, ept, color) ==
    \E id \in PieceIds :
       /\ OnBoard(b, ps, id)
       /\ ps[id].color = color
       /\ GetValidMoves(b, ps, ept, id).moves # <<>>

\* Every move played so far went through move_piece.
OnlyMovePiece == Len(move_history) = Len(played)

\* The square a two-square pawn advance from from to to passes over.
PassedOver(from, to) == <<(from[1] + to[1]) \div 2, to[2]>>

\* C1: in a position reached by successful move_piece calls only, the move
\* move_piece has just executed leaves the mover's own king unattacked:
\* is_in_check of the mover's colour is false.
C1_MoverNotInCheck ==
    (last.op = "move" /\ OnlyMovePiece)
        => ~IsInCheck(board, pieces, Opponent(current_player))

\* C2: a step that executes a move (move_piece returning True, or
\* apply_remote_move) flips current_player, a click whose move_piece returned
\* False leaves it as it was; move_count counts the flips.
C2_TurnAlternation ==
    [][/\ last'.op \in ExecutedOps =>
             /\ current_player' = Opponent(current_player)
             /\ move_count' = move_count + 1
       /\ last'.op \in {"reselect", "rejected", "select"} =>
             /\ current_player' = current_player
             /\ move_count' = move_count]_vars

\* A move has been executed locally and one has been applied from the peer,
\* and the turn is back with the local side.
C2_Witness ==
    /\ last.op = "remote"
    /\ move_history # <<>>
    /\ current_player = player_side
    /\ Len(played) >= 2

\* C3: after an executed move, when the new side to move is in check: if none
\* of its pieces has a valid move, checkmate and game_over are set and the
\* winner is the side that just moved; if one has, the move leaves checkmate
\* and game_over as they were.
C3_CheckmateDetection ==
    [][(/\ last'.op \in ExecutedOps
        /\ IsInCheck(board', pieces', current_player'))
       => IF HasValidMove(board', pieces', en_passant_target', current_player')
          THEN checkmate' = checkmate /\ game_over' = game_over
          ELSE checkmate' /\ game_over' /\ winner' = current_player]_vars

\* The mate of the game f3 e5 g4 Qh4 has been delivered.
C3_Witness ==
    /\ last.op \in ExecutedOps
    /\ check
    /\ checkmate
    /\ game_over
    /\ winner = "black"
    /\ current_player = "white"

\* C4: after an executed move, when the new side to move is not in check and
\* none of its pieces has a valid move, stalemate and game_over are set and
\* winner is empty.
C4_StalemateDetection ==
    (/\ last.op \in ExecutedOps
     /\ ~IsInCheck(board, pieces, current_player)
     /\ ~HasValidMove(board, pieces, en_passant_target, current_player))
    => stalemate /\ game_over /\ winner = NoColor

\* A move has left the side to move without check and without a move.
C4_Witness ==
    /\ last.op \in ExecutedOps
    /\ stalemate
    /\ game_over
    /\ ~check
    /\ winner = NoColor
    /\ ~HasValidMove(board, pieces, en_passant_target, current_player)

\* The last entry of played is a two-square pawn advance that passed over sq.
DoublePushOver(sq) ==
    /\ played # <<>>
    /\ LET from == played[Len(played)][1]
           to == played[Len(played)][2]
       IN /\ InBoard(to[1], to[2])
          /\ from[2] = to[2]
          /\ Abs(to[1] - from[1]) = 2
          /\ board[to[1]][to[2]] # NoPiece
          /\ pieces[board[to[1]][to[2]]].piece_type = "pawn"
          /\ sq = PassedOver(from, to)

\* The pawns of the side to move that stand beside square to, on its row.
PawnsBeside(to) ==
    {id \in PieceIds : /\ OnBoard(board, pieces, id)
                       /\ pieces[id].piece_type = "pawn"
                       /\ pieces[id].color = current_player
                       /\ pieces[id].row = to[1]
                       /\ Abs(pieces[id].col - to[2]) = 1}

\* C5: right after an executed two-square pawn advance that lands beside an
\* enemy pawn, that pawn's get_valid_moves holds the passed-over square; and
\* a pawn's get_valid_moves holds a diagonal step onto an empty square only
\* when the move executed last was a two-square advance over that square.
C5_EnPassantWindow ==
    last.op \in ExecutedOps =>
        /\ \A sq \in Squares :
              DoublePushOver(sq) =>
                 \A id \in PawnsBeside(played[Len(played)][2]) :
                    sq \in Range(GetValidMoves(board, pieces, en_passant_target, id).moves)
        /\ \A id \in PieceIds :
              (/\ OnBoard(board, pieces, id)
               /\ pieces[id].piece_type = "pawn"
               /\ pieces[id].color = current_player)
              => \A m \in Range(GetValidMoves(board, pieces, en_passant_target, id).moves) :
                    (m[2] # pieces[id].col /\ board[m[1]][m[2]] = NoPiece)
                        => DoublePushOver(m)

\* C6: after every executed move en_passant_target is the square passed over
\* when the move was a two-square pawn advance, and is empty otherwise.
C6_EnPassantTarget ==
    last.op \in ExecutedOps =>
        IF DoublePushOver(PassedOver(last.from, last.to))
        THEN en_passant_target = PassedOver(last.from, last.to)
        ELSE en_passant_target = NoSquare

\* The king a colour starts with, and the row it starts on.
KingOf(color) ==
    CHOOSE id \in PieceIds : /\ InitialPieces[id].piece_type = "king"
                             /\ InitialPieces[id].color = color

HomeRow(color) == InitialPieces[KingOf(color)].row

\* The rook's corner, the king's destination, the squares between king and
\* rook, and the squares the king crosses and lands on, for "kingside" and
\* "queenside".
RookCol(side) == IF side = "kingside" THEN 7 ELSE 0

CastleCol(side) == IF side = "kingside" THEN 6 ELSE 2

Between(side) == IF side = "kingside" THEN {5, 6} ELSE {1, 2, 3}

Crossed(side) == IF side = "kingside" THEN {5, 6} ELSE {3, 2}

\* get_valid_moves of the colour's king, standing on its starting square,
\* holds the castling destination of the side.
CastleOffered(color, side) ==
    /\ OnBoard(board, pieces, KingOf(color))
    /\ pieces[KingOf(color)].row = HomeRow(color)
    /\ pieces[KingOf(color)].col = 4
    /\ <<HomeRow(color), CastleCol(side)>> \in
          Range(GetValidMoves(board, pieces, en_passant_target, KingOf(color)).moves)

\* The conditions under which castling is available.
CastleAvailable(color, side) ==
    LET row == HomeRow(color)
        rook == board[row][RookCol(side)]
    IN /\ OnBoard(board, pieces, KingOf(color))
       /\ ~pieces[KingOf(color)].has_moved
       /\ rook # NoPiece
       /\ pieces[rook].piece_type = "rook"
       /\ pieces[rook].color = color
       /\ ~pieces[rook].has_moved
       /\ \A col \in Between(side) : board[row][col] = NoPiece
       /\ ~IsInCheck(board, pieces, color)
       /\ \A col \in Crossed(side) : ~IsSquareAttacked(board, pieces, row, col, color)

\* A move played earlier in the game started on the king's square or on the
\* rook's corner.
MovedBefore(color, side) ==
    \E i \in DOMAIN played :
       played[i][1] \in {<<HomeRow(color), 4>>, <<HomeRow(color), RookCol(side)>>}

\* C7: get_valid_moves of a king holds the castling destination when king and
\* rook have has_moved false, the squares between them are empty, the king is
\* not in check and neither the square it crosses nor the one it lands on is
\* attacked; it does not hold it once the king or that rook has moved earlier
\* in the game, nor when a crossed or landing square is attacked.
C7_CastlingAvailability ==
    \A color \in {"white", "black"} : \A side \in {"kingside", "queenside"} :
       /\ CastleAvailable(color, side) => CastleOffered(color, side)
       /\ MovedBefore(color, side) => ~CastleOffered(color, side)
       /\ (\E col \in Crossed(side) :
              IsSquareAttacked(board, pieces, HomeRow(color), col, color))
          => ~CastleOffered(color, side)

\* The white king is selected and is offered g1, and the black king could
\* castle to g8 as well.
C7_Witness ==
    /\ selected_piece = KingOf("white")
    /\ <<7, 6>> \in Range(valid_moves)
    /\ CastleAvailable("white", "kingside")
    /\ CastleAvailable("black", "kingside")

\* The last rank of a colour's pawns.
LastRank(color) == IF color = "white" THEN 0 ELSE 7

\* C8: when an executed move brings a pawn to its last rank, the piece is a
\* queen when the move is over, and the check flag the move sets is the one
\* of the position with the queen on that square.
C8_PromotionOrdering ==
    [][(/\ last'.op \in ExecutedOps
        /\ board[last'.from[1]][last'.from[2]] # NoPiece
        /\ pieces[board[last'.from[1]][last'.from[2]]].piece_type = "pawn"
        /\ last'.to[1] = LastRank(pieces[board[last'.from[1]][last'.from[2]]].color))
       => /\ pieces'[board[last'.from[1]][last'.from[2]]].piece_type = "queen"
          /\ check' = IsInCheck(board',
                                PromotePawn(pieces', board[last'.from[1]][last'.from[2]]),
                                current_player')]_vars

\* Board, kinds and has_moved flags of the pieces on it, en_passant_target
\* and side to move of two games are the same.
SamePosition(G, H) ==
    /\ G.board = H.board
    /\ \A sq \in Squares :
          G.board[sq[1]][sq[2]] # NoPiece =>
             G.pieces[G.board[sq[1]][sq[2]]] = H.pieces[G.board[sq[1]][sq[2]]]
    /\ G.en_passant_target = H.en_passant_target
    /\ G.current_player = H.current_player

\* C9: whenever move_piece executes a move, apply_remote_move given the
\* payload of the move's record on the state before the move ends in the
\* same board, kinds, has_moved flags, en_passant_target and side to move.
C9_RemoteLocalEquivalence ==
    [][last'.op = "move" =>
          LET r == ApplyRemoteMove(Game, Payload(move_history'[Len(move_history')]))
          IN ~r.raised /\ SamePosition(r.game, Game')]_vars

\* C10: when the receiver handles a payload whose origin square is empty or
\* whose coordinates are outside the board, board, pieces, side to move,
\* move counter and flags are after it what they were before.
C10_MalformedNoOp ==
    [][(/\ last'.op \in {"remote", "remote_raised"}
        /\ IsMalformed(Game, [from |-> last'.from, to |-> last'.to]))
       => /\ board' = board
          /\ pieces' = pieces
          /\ current_player' = current_player
          /\ move_count' = move_count
          /\ <<check, checkmate, stalemate, game_over, winner>>' =
                <<check, checkmate, stalemate, game_over, winner>>]_vars

\* What a failed move_piece must leave alone: board, pieces, side to move,
\* en_passant_target, move counter, history and the check and terminal flags.
MoveState(G) ==
    <<G.board, G.pieces, G.current_player, G.en_passant_target, G.move_count,
      G.move_history, G.check, G.checkmate, G.stalemate, G.game_over, G.winner>>

\* C11: while the receiver thread is inside apply_remote_move, the move on
\* the board and its check, checkmate and stalemate evaluation still to run,
\* the main loop carries out no select_piece and no move_piece.
C11_SingleWriter ==
    [][receiver = "evaluate" =>
           last'.op \notin {"select", "reselect", "rejected", "move"}]_vars

\* C12: move_piece called with no selected piece, or with a destination that
\* is not in valid_moves, returns False and leaves board, pieces, side to
\* move, en_passant_target, move counter, history and flags as they were;
\* and a click whose move_piece returned False leaves them as they were.
C12_FailedMoveNoOp ==
    [][/\ \A sq \in Squares :
             (selected_piece = NoPiece \/ sq \notin Range(valid_moves))
             => /\ ~MovePiece(Game, sq[1], sq[2]).ok
                /\ MoveState(MovePiece(Game, sq[1], sq[2]).game) = MoveState(Game)
       /\ (last'.op \in {"rejected", "reselect"} /\ selected_piece # NoPiece)
             => MoveState(Game') = MoveState(Game)]_vars

\* A click on a square the selected piece cannot go to has been handled:
\* move_piece returned False and select_piece took the clicked piece instead.
C12_Witness ==
    /\ last.op = "reselect"
    /\ selected_piece # NoPiece
    /\ <<pieces[selected_piece].row, pieces[selected_piece].col>> = last.to
    /\ move_history # <<>>

\* C13: in every state, which is a state after a completed select_piece,
\* move_piece or apply_remote_move, each piece the board holds has the
\* square that holds it as its stored (row, col); so it stands on one square
\* only and board[p.row][p.col] is p.
C13_BoardPieceConsistency ==
    \A sq \in Squares :
       board[sq[1]][sq[2]] # NoPiece =>
          /\ pieces[board[sq[1]][sq[2]]].row = sq[1]
          /\ pieces[board[sq[1]][sq[2]]].col = sq[2]
          /\ OnBoard(board, pieces, board[sq[1]][sq[2]])

\* A castling move has been applied from the peer: the black king and rook
\* stand on g8 and f8.
C13_Witness ==
    /\ last.op = "remote"
    /\ last.from = <<0, 4>>
    /\ last.to = <<0, 6>>
    /\ board[0][6] = KingOf("black")
    /\ board[0][5] # NoPiece
    /\ pieces[board[0][5]].piece_type = "rook"
    /\ pieces[board[0][5]].col = 5

\* The board and pieces a get_valid_moves call returned with, g, are b and ps.
Untouched(g, b, ps) == g.board = b /\ g.pieces = ps

\* get_valid_moves of the piece returns with board and pieces as they were.
LeavesNoTrace(b, ps, ept, id) == Untouched(GetValidMoves(b, ps, ept, id), b, ps)

\* The kings of a colour standing on the board.
KingsOf(color) ==
    {sq \in Squares : /\ board[sq[1]][sq[2]] # NoPiece
                      /\ pieces[board[sq[1]][sq[2]]].color = color
                      /\ pieces[board[sq[1]][sq[2]]].piece_type = "king"}

\* Every move so far was made by move_piece here or by the peer's move_piece.
PeerValidated ==
    \A i \in DOMAIN played :
        played[i] \notin {<<md.from, md.to>> : md \in MalformedPayloads}

\* C14: in every state reached by legal local moves and by remote moves the
\* peer validated, each colour has exactly one king on the board and
\* find_king returns its square.
C14_KingNeverRemoved ==
    PeerValidated =>
        \A color \in {"white", "black"} :
            /\ Cardinality(KingsOf(color)) = 1
            /\ FindKing(board, pieces, color) # NoSquare

\* C15: in every position an executed move produces, get_valid_moves of any
\* piece of the side to move returns with the board and every piece's row, col and
\* has_moved as they were; and a click that only selects (select_piece)
\* leaves board, pieces, en_passant_target and side to move as they were.
C15_SimulationLeavesNoTrace ==
    [][/\ last'.op \in ExecutedOps =>
             \A id \in PieceIds :
                (OnBoard(board', pieces', id) /\ pieces'[id].color = current_player')
                   => LeavesNoTrace(board', pieces', en_passant_target', id)
       /\ last'.op \in {"select", "reselect"} =>
             /\ board' = board
             /\ pieces' = pieces
             /\ en_passant_target' = en_passant_target
             /\ current_player' = current_player]_vars

\* A piece has been selected whose offered destinations include a capture.
C15_Witness ==
    /\ last.op = "select"
    /\ selected_piece # NoPiece
    /\ \E m \in Range(valid_moves) :
          /\ board[m[1]][m[2]] # NoPiece
          /\ pieces[board[m[1]][m[2]]].color # pieces[selected_piece].color

\* The game is in the position the constructor builds.
FreshPosition ==
    /\ current_player = "white"
    /\ en_passant_target = NoSquare
    /\ move_history = <<>>
    /\ board = InitialBoard
    /\ pieces = InitialPieces

\* The (piece, destination) pairs get_valid_moves offers the pieces of a
\* colour whose kind is in kinds.
OfferedPairs(color, kinds) ==
    UNION {{<<id, m>> : m \in Range(GetValidMoves(board, pieces, en_passant_target, id).moves)} :
              id \in {i \in PieceIds : /\ OnBoard(board, pieces, i)
                                       /\ pieces[i].color = color
                                       /\ pieces[i].piece_type \in kinds}}

AllKinds == {"pawn", "rook", "knight", "bishop", "queen", "king"}

\* C16: in the freshly constructed position get_valid_moves offers white 20
\* (piece, destination) pairs, 16 of pawns and 4 of knights, and select_piece
\* on a square holding a black piece returns False and changes nothing, so
\* no destination is offered.
C16_InitialPosition ==
    FreshPosition =>
        /\ Cardinality(OfferedPairs("white", AllKinds)) = 20
        /\ Cardinality(OfferedPairs("white", {"pawn"})) = 16
        /\ Cardinality(OfferedPairs("white", {"knight"})) = 4
        /\ \A sq \in Squares :
              (board[sq[1]][sq[2]] # NoPiece /\ pieces[board[sq[1]][sq[2]]].color = "black")
              => /\ ~SelectPiece(Game, sq[1], sq[2]).ok
                 /\ SelectPiece(Game, sq[1], sq[2]).game = Game
        /\ selected_piece = NoPiece => valid_moves = <<>>

\* In the fresh position the knight on b1 has been selected and is offered
\* a3 and c3.
C16_Witness ==
    /\ FreshPosition
    /\ last.op = "select"
    /\ last.to = <<7, 1>>
    /\ Range(valid_moves) = {<<5, 0>>, <<5, 2>>}

C18_ColourGating ==
    [][(connection /\ last'.op = "move") =>
           /\ player_side = current_player
           /\ player_side = pieces'[board'[last'.to[1]][last'.to[2]]].color]_vars

\* C19: the receiver applies a remote move only while the game holds the
\* connection of a session, and never goes round its loop with no
\* connection to read.
C19_ReceiverShutdown ==
    [][/\ last'.op \in {"remote", "remote_raised", "stale", "stale_raised"} => connection
       /\ receiver' # "spin"]_vars

\* C20: when a piece is selected and the click's move_piece returns False,
\* the click ends with no selected piece and no offered destinations, or
\* with the side-to-move piece on the clicked square selected.
C20_RejectedSelection ==
    [][(selected_piece # NoPiece /\ last'.op \in {"rejected", "reselect"})
       => IF selected_piece' = NoPiece
          THEN valid_moves' = <<>>
          ELSE /\ board'[last'.to[1]][last'.to[2]] = selected_piece'
               /\ pieces'[selected_piece'].color = current_player']_vars

\* The fields of game G that belong to the session and its sockets.
SessionState(G) == <<G.game_mode, G.server_socket, G.client_socket, G.connection>>

\* What handle_connection_error has to leave alone: the position and its
\* flags, the selection, and the side and turn of the player.
KeptByConnectionError(G) ==
    <<MoveState(G), G.selected_piece, G.valid_moves, G.player_side, G.network_mode,
      G.is_my_turn>>

\* C21: handle_connection_error leaves board, piece positions, side to move,
\* en_passant_target, history and the check, checkmate, stalemate and game_over
\* flags as they are; it sets game_mode to 'menu' and drops the socket handles.
C21_TransportLossKeepsState ==
    [][/\ KeptByConnectionError(HandleConnectionError(Game)) = KeptByConnectionError(Game)
       /\ SessionState(HandleConnectionError(Game)) = <<"menu", FALSE, FALSE, FALSE>>
       /\ last'.op = "closed" =>
              /\ KeptByConnectionError(Game)' = KeptByConnectionError(Game)
              /\ SessionState(Game)' = <<"menu", FALSE, FALSE, FALSE>>]_vars

\* The peer closed the connection after a move had been made.
C21_Witness ==
    /\ last.op = "closed"
    /\ move_history # <<>>
    /\ game_mode = "menu"
    /\ ~connection

\* C25: whenever play begins, from the menu, from an accepted server session
\* or from a connection made as the client, the game is in the initial
\* position with white to move, move counter 0, no en_passant_target, empty
\* history and every check and terminal flag false.
C25_SessionStartsFresh ==
    [][(game_mode # "playing" /\ game_mode' = "playing") =>
           /\ FreshPosition'
           /\ move_count' = 0
           /\ ~check' /\ ~checkmate' /\ ~stalemate' /\ ~game_over']_vars

\* move_piece of the piece on mv[1] to mv[2] in game G.
Moved(G, mv) ==
    MovePiece(SelectPiece(G, mv[1][1], mv[1][2]).game, mv[2][1], mv[2][2]).game

\* The games before and after each move of mvs, made from a new game.
Extended(games, mv) == Append(games, Moved(games[Len(games)], mv))

RECURSIVE Replayed(_)
Replayed(mvs) ==
    IF mvs = <<>> THEN <<NewGame>>
    ELSE Extended(Replayed(SubSeq(mvs, 1, Len(mvs) - 1)), mvs[Len(mvs)])

\* What an undo has to bring back: piece placements, piece kinds, has_moved
\* flags and en_passant_target.
Undoable(G) == <<G.board, G.pieces, G.en_passant_target>>

\* Move i and the last move of the games left the same state by the same
\* record and yet started from different states.
Ambiguous(games, i) ==
    /\ Undoable(games[i + 1]) = Undoable(games[Len(games)])
    /\ Undoable(games[i]) # Undoable(games[Len(games) - 1])

\* C22: the state before an executed local move is determined by the state
\* after it and the record appended: no earlier move of the game left the
\* same state by the same record from a different state.
C22_RecordsSufficeForUndo ==
    (last.op = "move" /\ OnlyMovePiece) =>
        \A i \in 1..(Len(move_history) - 1) :
            move_history[i] = move_history[Len(move_history)] =>
                ~Ambiguous(Replayed(played), i)

\* The pieces standing on board b.
Standing(b) == {b[sq[1]][sq[2]] : sq \in Squares} \ {NoPiece}

\* The move carried out before the one in hand was the two-square advance of
\* a pawn to square sq.
AdvancedTwoTo(sq) ==
    /\ played # <<>>
    /\ played[Len(played)][2] = sq
    /\ played[Len(played)][1][2] = sq[2]
    /\ Abs(played[Len(played)][1][1] - sq[1]) = 2

\* The en-passant capture recorded by record took the right pawn off the
\* position b, ps and left after.
RightPawnRemoved(b, ps, after, record) ==
    /\ b[record.to[1]][record.to[2]] = NoPiece
    /\ record.captured # NoPiece
    /\ Standing(after) = Standing(b) \ {record.captured}
    /\ b[record.from[1]][record.to[2]] = record.captured
    /\ ps[record.captured].piece_type = "pawn"
    /\ ps[record.captured].color # ps[record.piece].color
    /\ AdvancedTwoTo(<<record.from[1], record.to[2]>>)

\* C23: when move_piece carries out a move as an en-passant capture, the
\* destination was empty and exactly one piece leaves the board: the enemy
\* pawn on the mover's origin row in the destination column, which advanced
\* two squares on the ply before; the record names it as captured.
C23_EnPassantRemovesRightPawn ==
    [][last'.op = "move" =>
           (move_history'[Len(move_history')].en_passant =>
                RightPawnRemoved(board, pieces, board',
                                 move_history'[Len(move_history')]))]_vars

\* get_valid_moves of the colour's king holds a move of two columns in the
\* position b, ps, ept.
TwoColumnsOffered(b, ps, ept, color) ==
    /\ OnBoard(b, ps, KingOf(color))
    /\ \E m \in Range(GetValidMoves(b, ps, ept, KingOf(color)).moves) :
          Abs(m[2] - ps[KingOf(color)].col) = 2

\* By the records of history, move_piece has castled with the colour's king.
HasCastled(history, color) ==
    \E i \in DOMAIN history :
       history[i].castling /\ history[i].piece = KingOf(color)

\* The king move of record, two columns wide, took the rook rook from its
\* corner to the square the king crossed; ps and b are what the move left.
RookCarried(rook, b, ps, record) ==
    LET row == record.from[1]
        corner == IF record.to[2] > record.from[2] THEN 7 ELSE 0
        crossed == IF record.to[2] > record.from[2] THEN 5 ELSE 3
    IN /\ record.castling
       /\ record.from[2] = 4
       /\ rook # NoPiece
       /\ ps[rook].piece_type = "rook"
       /\ ps[rook].color = ps[record.piece].color
       /\ b[row][crossed] = rook
       /\ ps[rook].row = row
       /\ ps[rook].col = crossed
       /\ ps[rook].has_moved
       /\ ps[record.piece].has_moved
       /\ b[row][corner] = NoPiece
       /\ b[row][record.to[2]] = record.piece

\* C24: when move_piece executes a king move of two columns, the rook of the
\* king's colour goes from column 7 or 0 to the square the king crossed,
\* column 5 or 3, king and rook have has_moved true, the corner is empty and
\* the record's castling flag is true; that king is never offered castling
\* again.
C24_CastlingExecution ==
    [][/\ last'.op = "move" =>
              LET record == move_history'[Len(move_history')]
              IN (/\ pieces[record.piece].piece_type = "king"
                  /\ Abs(record.to[2] - record.from[2]) = 2)
                 => RookCarried(board[record.from[1]][IF record.to[2] > record.from[2]
                                                      THEN 7 ELSE 0],
                                board', pieces', record)
       /\ \A color \in {"white", "black"} :
              HasCastled(move_history', color) =>
                  ~TwoColumnsOffered(board', pieces', en_passant_target', color)]_vars

\* White has castled kingside by move_piece: king on g1, rook on f1.
C24_Witness ==
    /\ last.op = "move"
    /\ move_history[Len(move_history)].castling
    /\ board[7][6] = KingOf("white")
    /\ board[7][5] # NoPiece
    /\ pieces[board[7][5]].piece_type = "rook"
    /\ board[7][7] = NoPiece

\* Some piece of the colour, by its raw attack set, attacks square sq.
AttackedBy(color, sq) ==
    \E id \in PieceIds :
       /\ OnBoard(board, pieces, id)
       /\ pieces[id].color = color
       /\ sq \in GetAllAttackingMoves(board, pieces, id)

\* C26: after every executed move, by move_piece or by apply_remote_move, the
\* check flag is is_in_check(current_player) on the position reached: it is
\* true iff a piece of the side that moved attacks the king of the side now
\* to move; and checkmate implies check.
C26_CheckFlagAccuracy ==
    /\ last.op \in ExecutedOps =>
          /\ check = IsInCheck(board, pieces, current_player)
          /\ check = (/\ KingsOf(current_player) # {}
                      /\ \A sq \in KingsOf(current_player) :
                             AttackedBy(Opponent(current_player), sq))
    /\ checkmate => check

\* The row on which the pawns of a colour start.
StartRow(color) == IF color = "white" THEN 6 ELSE 1

\* The operations that leave a position the next get_valid_moves works on.
PositionOps == {"init", "move", "remote", "remote_raised", "stale", "stale_raised", "reset"}

\* The two-square advance is among moves, the destinations offered to pawn p.
AdvanceTwoOffered(p, moves) ==
    <<p.row + 2 * Direction(p.color), p.col>> \in Range(moves)

\* Pawn p may advance two squares on board b.
AdvanceTwoAllowed(b, p) ==
    /\ p.row = StartRow(p.color)
    /\ b[p.row + Direction(p.color)][p.col] = NoPiece
    /\ b[p.row + 2 * Direction(p.color)][p.col] = NoPiece

\* C27: in every reachable state a pawn on the board has has_moved false iff
\* it stands on its starting row, and get_valid_moves offers a pawn of the
\* side to move the two-square advance only from its starting row with the
\* square in front of it and the destination both empty.
C27_DoublePushFromStart ==
    /\ \A id \in PieceIds :
          (OnBoard(board, pieces, id) /\ pieces[id].piece_type = "pawn")
          => (~pieces[id].has_moved <=> pieces[id].row = StartRow(pieces[id].color))
    /\ last.op \in PositionOps =>
          \A id \in PieceIds :
             (/\ OnBoard(board, pieces, id)
              /\ pieces[id].piece_type = "pawn"
              /\ pieces[id].color = current_player)
             => (AdvanceTwoOffered(pieces[id],
                                   GetValidMoves(board, pieces, en_passant_target, id).moves)
                 => AdvanceTwoAllowed(board, pieces[id]))

\* -1, 0 or 1 as x is negative, zero or positive.
Sign(x) == IF x < 0 THEN -1 ELSE IF x > 0 THEN 1 ELSE 0

\* Every square strictly between s and t, two squares of one rank, file or
\* diagonal of board b, is empty.
ClearBetween(b, s, t) ==
    LET far == IF Abs(t[1] - s[1]) > Abs(t[2] - s[2])
               THEN Abs(t[1] - s[1]) ELSE Abs(t[2] - s[2])
    IN \A k \in 1..(far - 1) :
          b[s[1] + k * Sign(t[1] - s[1])][s[2] + k * Sign(t[2] - s[2])] = NoPiece

\* The raw attack rules: a piece of the kind and colour standing on s
\* attacks t on board b.
RawAttacks(b, kind, color, s, t) ==
    LET dr == t[1] - s[1]
        dc == t[2] - s[2]
        straight == (dr = 0) # (dc = 0)
        diagonal == dr # 0 /\ Abs(dr) = Abs(dc)
    IN CASE kind = "pawn" -> dr = (IF color = "white" THEN -1 ELSE 1) /\ Abs(dc) = 1
         [] kind = "knight" -> {Abs(dr), Abs(dc)} = {1, 2}
         [] kind = "king" -> s # t /\ Abs(dr) <= 1 /\ Abs(dc) <= 1
         [] kind = "rook" -> straight /\ ClearBetween(b, s, t)
         [] kind = "bishop" -> diagonal /\ ClearBetween(b, s, t)
         [] kind = "queen" -> (IF straight THEN TRUE ELSE diagonal) /\ ClearBetween(b, s, t)
         [] OTHER -> FALSE

\* Some piece of the colour standing on the board attacks t by the raw rules.
RawAttacked(color, t) ==
    \E s \in Squares :
       /\ board[s[1]][s[2]] # NoPiece
       /\ pieces[board[s[1]][s[2]]].color = color
       /\ RawAttacks(board, pieces[board[s[1]][s[2]]].piece_type, color, s, t)

\* C28: in every position the program works on, is_square_attacked(square,
\* colour) is true iff a piece of the opposing colour attacks the square by
\* the raw rules (pawn: its two forward diagonals; knight: its 8 offsets;
\* king: its 8 neighbours; bishop, rook, queen: their rays up to and including
\* the first occupied square), and is_in_check(colour) is is_square_attacked
\* on the square of that colour's king.
C28_AttackDetection ==
    last.op \in PositionOps =>
        \A color \in {"white", "black"} :
           /\ \A t \in Squares :
                 IsSquareAttacked(board, pieces, t[1], t[2], color)
                     <=> RawAttacked(Opponent(color), t)
           /\ \A k \in KingsOf(color) :
                 IsInCheck(board, pieces, color)
                     <=> IsSquareAttacked(board, pieces, k[1], k[2], color)

\* The black queen on h4 attacks the white king on e1 along a diagonal that
\* the move before opened, and is stopped on h2 by the pawn it attacks.
C28_Witness ==
    /\ last.op \in ExecutedOps
    /\ board[4][7] # NoPiece
    /\ pieces[board[4][7]].piece_type = "queen"
    /\ pieces[board[4][7]].color = "black"
    /\ board[7][4] = KingOf("white")
    /\ IsSquareAttacked(board, pieces, 7, 4, "white")
    /\ IsSquareAttacked(board, pieces, 6, 7, "white")
    /\ ~IsSquareAttacked(board, pieces, 7, 7, "white")
    /\ IsInCheck(board, pieces, "white")

\* C29: a finished game is absorbing. From a state where game_over is true,
\* every step other than reset leaves the board, the side to move and the
\* checkmate, stalemate, winner and game_over flags as they are, offers no
\* destination and executes no move.
C29_TerminalAbsorbing ==
    [][(game_over /\ last'.op # "reset") =>
          /\ board' = board
          /\ current_player' = current_player
          /\ checkmate' = checkmate
          /\ stalemate' = stalemate
          /\ winner' = winner
          /\ game_over' = game_over
          /\ valid_moves' = <<>>
          /\ last'.op # "move"]_vars

\* C30: game_over is true iff checkmate or stalemate is, winner is set iff
\* checkmate is, and under checkmate the winner is the colour opposite to
\* the side to move.
C30_TerminalFlagCoherence ==
    /\ game_over <=> (IF checkmate THEN TRUE ELSE stalemate)
    /\ (winner # NoColor) <=> checkmate
    /\ checkmate => winner = Opponent(current_player)

\* The pieces of the colour among the identities ids.
OfColor(ps, ids, color) == {id \in ids : ps[id].color = color}

\* The step from board b to board after took at most one piece off, a piece
\* of the colour opposite to mover, and left every piece of mover standing.
TookOnlyEnemy(b, ps, after, mover) ==
    LET removed == Standing(b) \ Standing(after)
    IN /\ Standing(after) \subseteq Standing(b)
       /\ Cardinality(removed) <= 1
       /\ \A id \in removed : ps[id].color = Opponent(mover)
       /\ Cardinality(OfColor(ps, Standing(after), mover))
              = Cardinality(OfColor(ps, Standing(b), mover))

\* C31: every successful move_piece removes at most one piece from the
\* board, the removed piece has the colour opposite to the piece that moved,
\* and the number of pieces of the moving piece's colour is unchanged
\* (castling, en passant and promotion included).
C31_CapturesOnlyEnemy ==
    [][last'.op = "move" =>
          /\ selected_piece # NoPiece
          /\ TookOnlyEnemy(board, pieces, board', pieces[selected_piece].color)
          /\ \A id \in PieceIds : pieces'[id].color = pieces[id].color]_vars

\* C32: in a network session, once the side is assigned and after every
\* executed local or remote move, is_my_turn is true exactly when player_side
\* is the side to move.
C32_TurnFlagConsistency ==
    (/\ network_mode # "none"
     /\ player_side # NoColor
     /\ last.op \in {"side", "move", "remote"})
        => (is_my_turn <=> player_side = current_player)

====
